---------------------------- MODULE Spec2Model ----------------------------
(***************************************************************************)
(* A model of src/platform-aws.c (the AWS platform layer of the OFI NCCL   *)
(* plugin), built with HAVE_CUDA and with every HAVE_DECL_FI_OPT_* option   *)
(* declared.                                                                *)
(*                                                                          *)
(*   - the rail ordering engine: get_rail_vf_idx, platform_sort_rails       *)
(*   - the platform identity cache: get_platform_type, get_platform_data    *)
(*   - the endpoint capability negotiator: platform_config_endpoint         *)
(*                                                                          *)
(* C strings are sequences of one-character strings.  Pointers to rail      *)
(* descriptors are the numbers 1..MaxRails, and NULL is 0.                  *)
(***************************************************************************)
EXTENDS Integers, Sequences, FiniteSets, TLC

(***************************************************************************)
(* Bounds of the model.                                                     *)
(***************************************************************************)
MaxRails == 4
NumThreads == 2

(***************************************************************************)
(* Program constants.                                                       *)
(***************************************************************************)
NULL == 0
EIO == 5
EINVAL == 22
ENOTSUP == 95
ENOMEM == 12
GUID_BUF == 20
GUID_LEN == 19
NUM_VF == 2
FI_EOPNOTSUPP == 95
FI_ENOPROTOOPT == 92

VARIABLES
    \* ---- rail ordering engine ----
    info_list,      \* *info_list: the caller's list head (a descriptor or NULL)
    next,           \* next[d]: the next link of descriptor d
    guid_file,      \* guid_file[d]: /sys/class/infiniband/<dev>/node_guid of d
    sort_outcome,   \* how the last platform_sort_rails call ended
    sort_pre,       \* the list (head, links, num_rails) as the last call found it
    sort_array      \* sorted_info_array as the last call left it

sortVars == <<info_list, next, guid_file, sort_outcome, sort_pre, sort_array>>

VARIABLES
    \* ---- platform identity cache and capability lookup cache ----
    product_name,   \* /sys/devices/virtual/dmi/id/product_name, its characters
    pt_init,        \* get_platform_type: static bool init
    platform_type,  \* get_platform_type: static char *platform_type
    platform_mutex, \* get_platform_type: static platform_mutex (owner or 0)
    pd_init,        \* get_platform_data: static bool init
    platform_data,  \* get_platform_data: static platform_data (catalog index or 0)
    pd_mutex,       \* get_platform_data: static mutex (owner or 0)
    opens,          \* number of fopen calls made on product_name
    pt_failed,      \* the read of product_name failed (fopen, malloc or ferror)
    pt_returns,     \* every value get_platform_type has returned
    pd_returns      \* every value get_platform_data has returned

idVars == <<product_name, pt_init, platform_type, platform_mutex, pd_init,
            platform_data, pd_mutex, opens, pt_failed, pt_returns, pd_returns>>

VARIABLES
    \* ---- endpoint capability negotiator ----
    nccl_proto_configured,  \* platform_config_endpoint: static flag
    need_ordering,          \* platform_config_endpoint: static flag
    cfg_mutex,              \* platform_config_endpoint: static mutex (owner or 0)
    env_NCCL_PROTO,         \* getenv("NCCL_PROTO"): "unset" or its value
    selected_protocol,      \* nccl_ofi_selected_protocol
    strcmp_null,            \* what strcmp(NULL, s) does in this build
    crashed,                \* the process has died
    configured_by,          \* which path set nccl_proto_configured
    writes                  \* number of calls that wrote need_ordering

negVars == <<nccl_proto_configured, need_ordering, cfg_mutex, env_NCCL_PROTO,
             selected_protocol, strcmp_null, crashed, configured_by, writes>>

VARIABLES
    \* ---- threads ----
    pc,     \* pc[t]: where thread t is
    stack,  \* stack[t]: the labels its pending calls return to
    rv,     \* rv[t]: the value the last call it made returned
    loc     \* loc[t]: the locals of its platform_config_endpoint call

thrVars == <<pc, stack, rv, loc>>

VARIABLES
    \* ---- platform initialization ----
    tun,            \* the environment and the globals platform_init may set
    params,         \* the ofi_nccl_* parameters the user gave
    init_pre,       \* tun as the last platform_init call found it
    init_outcome    \* how far the last platform_init call is, and its record

initVars == <<tun, params, init_pre, init_outcome>>

\* The negotiator's variables other than its mutex.
negShared == <<nccl_proto_configured, need_ordering, env_NCCL_PROTO,
               selected_protocol, strcmp_null, crashed, configured_by, writes>>

vars == <<sortVars, idVars, negVars, thrVars, initVars>>

Threads == 1..NumThreads

Descs == 1..MaxRails

(***************************************************************************)
(* C library helpers used by get_rail_vf_idx.                               *)
(***************************************************************************)
Min(a, b) == IF a < b THEN a ELSE b

\* Index of the first newline of s, or 0 when there is none.
FirstNewline(s) ==
    IF \E i \in 1..Len(s) : s[i] = "\n"
    THEN CHOOSE i \in 1..Len(s) : s[i] = "\n" /\ \A j \in 1..(i-1) : s[j] # "\n"
    ELSE 0

\* fgets(buf, size, fp) on a freshly opened file: at most size-1 characters,
\* stopping after the first newline (which is kept); NULL at end of file.
Fgets(content, size) ==
    IF content = << >>
    THEN [null |-> TRUE, s |-> << >>]
    ELSE LET nl == FirstNewline(content)
             n  == IF nl = 0 THEN Min(Len(content), size - 1) ELSE Min(nl, size - 1)
         IN [null |-> FALSE, s |-> SubSeq(content, 1, n)]

IsSpace(c) == c \in {" ", "\t", "\n", "\r"}
IsDigit(c) == c \in {"0", "1", "2", "3", "4", "5", "6", "7", "8", "9"}
DigitVal(c) ==
    CASE c = "0" -> 0 [] c = "1" -> 1 [] c = "2" -> 2 [] c = "3" -> 3
      [] c = "4" -> 4 [] c = "5" -> 5 [] c = "6" -> 6 [] c = "7" -> 7
      [] c = "8" -> 8 [] c = "9" -> 9

RECURSIVE SkipSpace(_, _)
SkipSpace(s, i) ==
    IF i <= Len(s) /\ IsSpace(s[i]) THEN SkipSpace(s, i + 1) ELSE i

RECURSIVE ReadDigits(_, _, _)
ReadDigits(s, i, acc) ==
    IF i <= Len(s) /\ IsDigit(s[i])
    THEN ReadDigits(s, i + 1, 10 * acc + DigitVal(s[i]))
    ELSE [val |-> acc, end |-> i]

\* (Variant of strtol: every string converts to 0, all of it used.)
StrtolZero(s) == [val |-> 0, used |-> Len(s)]

\* strtol(s, &endptr, 10): leading white space, an optional sign, decimal
\* digits.  used is endptr - s; with no digit converted, endptr is s.
Strtol10(s) ==
    LET i    == SkipSpace(s, 1)
        neg  == i <= Len(s) /\ s[i] = "-"
        j    == IF i <= Len(s) /\ s[i] \in {"+", "-"} THEN i + 1 ELSE i
        d    == ReadDigits(s, j, 0)
    IN IF d.end = j
       THEN [val |-> 0, used |-> 0]
       ELSE [val |-> IF neg THEN 0 - d.val ELSE d.val, used |-> d.end - 1]

(***************************************************************************)
(* get_rail_vf_idx: the value returned for a descriptor whose node_guid    *)
(* file is f = [openable, content].                                         *)
(***************************************************************************)
get_rail_vf_idx(f) ==
    IF ~f.openable THEN 0 - EIO
    ELSE LET g == Fgets(f.content, GUID_BUF)
         IN IF g.null THEN 0 - EIO
            ELSE IF Len(g.s) # GUID_LEN THEN 0 - EINVAL
            ELSE IF g.s[15] # ":" THEN 0 - EINVAL
            ELSE LET r == Strtol10(SubSeq(g.s, 18, Len(g.s)))
                 IN IF r.used # 2 THEN 0 - EINVAL ELSE r.val

(***************************************************************************)
(* The node_guid files the model draws from.                                *)
(***************************************************************************)
Grp0 == <<"0", "0", "0", "0">>
GuidPrefix == Grp0 \o <<":">> \o Grp0 \o <<":">> \o Grp0 \o <<":">>

File(content) == [openable |-> TRUE, content |-> content]

\* 0000:0000:0000:0000 and 0000:0000:0000:0001: VF slots 0 and 1.
GuidSlot0 == File(GuidPrefix \o <<"0", "0", "0", "0", "\n">>)
GuidSlot1 == File(GuidPrefix \o <<"0", "0", "0", "1", "\n">>)
\* 0000:0000:0000:0203: low digits 03.
GuidSlot3 == File(GuidPrefix \o <<"0", "2", "0", "3", "\n">>)
\* A first line of 21 characters: 0000:0000:0000:0001ff.
GuidLong == File(GuidPrefix \o <<"0", "0", "0", "1", "f", "f", "\n">>)
\* A first line of 18 characters: 0000:0000:0000:000.
GuidShort == File(GuidPrefix \o <<"0", "0", "0", "\n">>)
\* 19 characters that are no hexadecimal groups: zzzzzzzzzzzzzz:zz00.
GuidNotHex ==
    File(<<"z", "z", "z", "z", "z", "z", "z", "z", "z", "z", "z", "z", "z", "z",
           ":", "z", "z", "0", "0", "\n">>)
\* A file that cannot be opened, and a file that is empty.
GuidNoFile == [openable |-> FALSE, content |-> << >>]
GuidEmpty == File(<< >>)

GuidFiles ==
    {GuidSlot0, GuidSlot1, GuidSlot3, GuidLong, GuidShort, GuidNoFile}

\* The first line of a file: the characters before its first newline.
FirstLine(content) ==
    LET nl == FirstNewline(content)
    IN IF nl = 0 THEN content ELSE SubSeq(content, 1, nl - 1)

IsHex(c) ==
    IsDigit(c) \/ c \in {"a", "b", "c", "d", "e", "f", "A", "B", "C", "D", "E", "F"}

\* XXXX:XXXX:XXXX:XXXX, four groups of four hexadecimal digits.
WellFormedGuid(line) ==
    /\ Len(line) = GUID_LEN
    /\ \A i \in 1..GUID_LEN :
          IF i \in {5, 10, 15} THEN line[i] = ":" ELSE IsHex(line[i])

(***************************************************************************)
(* platform_sort_rails.                                                     *)
(***************************************************************************)

\* rail_map (line 812): the next target position of each VF slot.
\* (Variant: slot 1 starting at position 1.)
RailMapFromOne == [v \in 0..(NUM_VF - 1) |-> v]

RailMapInit == [v \in 0..(NUM_VF - 1) |-> 2 * v]

\* (Variant of line 831: no position is ever found occupied.)
NeverOccupied(arr, rail_idx) == FALSE

\* Line 831: the target position already holds a descriptor.
Occupied(arr, rail_idx) == arr[rail_idx] # NULL

\* The assignment loop (lines 814-838) from index i on, info_list_in = cur.
\* A target position outside the num_rails entries of the alloca'd array is
\* an out-of-bounds read: it finds either some non-NULL word (oobSet) or a
\* NULL one, and then the store goes out of bounds too (oob) and leaves the
\* array as it is.
RECURSIVE AssignLoop(_, _, _, _, _, _, _, _, _)
AssignLoop(i, cur, arr, rail_map, n, nxt, files, oobSet, oob) ==
    IF i = n THEN [status |-> "filled", arr |-> arr, why |-> "none", oob |-> oob]
    ELSE IF cur = NULL
    THEN [status |-> "error", arr |-> arr, why |-> "short", oob |-> oob]
    ELSE LET vf_idx == get_rail_vf_idx(files[cur])
         IN IF vf_idx < 0 \/ vf_idx >= NUM_VF
            THEN [status |-> "error", arr |-> arr,
                  why |-> IF vf_idx = 0 - EIO THEN "unreadable"
                          ELSE IF vf_idx = 0 - EINVAL THEN "format"
                          ELSE "range",
                  oob |-> oob]
            ELSE LET rail_idx == rail_map[vf_idx]
                     map2 == [rail_map EXCEPT ![vf_idx] = @ + 1]
                 IN IF rail_idx >= n
                    THEN IF oobSet
                         THEN [status |-> "error", arr |-> arr,
                               why |-> "duplicate", oob |-> TRUE]
                         ELSE AssignLoop(i + 1, nxt[cur], arr, map2, n, nxt,
                                         files, oobSet, TRUE)
                    ELSE IF Occupied(arr, rail_idx)
                    THEN [status |-> "error", arr |-> arr, why |-> "duplicate",
                          oob |-> oob]
                    ELSE AssignLoop(i + 1, nxt[cur],
                                    [arr EXCEPT ![rail_idx] = cur], map2, n,
                                    nxt, files, oobSet, oob)

\* The relinking loop (lines 843-852) from index i on.  info_ptr is
\* sorted_info_array[i] throughout; a NULL there fails the assertions (or,
\* without them, is dereferenced): the process dies.
\* (Variant: the last descriptor keeps the link it had.)
RelinkNoTerminator(i, arr, n, nxt) ==
    IF i = n - 1 THEN nxt[arr[i]] ELSE arr[i + 1]

RelinkTarget(i, arr, n, nxt) ==
    IF i = n - 1 THEN NULL ELSE arr[i + 1]

RECURSIVE RelinkLoop(_, _, _, _)
RelinkLoop(i, arr, n, nxt) ==
    IF i = n THEN [status |-> "ok", nxt |-> nxt]
    ELSE IF arr[i] = NULL THEN [status |-> "crash", nxt |-> nxt]
    ELSE RelinkLoop(i + 1, arr, n,
                    [nxt EXCEPT ![arr[i]] = RelinkTarget(i, arr, n, nxt)])

\* What the error exit (line 854) leaves in *info_list: the head as found.
\* (Variant: *info_list written before the assignment loop has finished.)
HeadWrittenEarly(head, arr) == arr[0]

HeadOnError(head, arr) == head

\* The whole call: [status, head, nxt, arr, why, oob].
platform_sort_rails(head, nxt, files, n, oobSet) ==
    IF n <= 0
    THEN [status |-> "noop", head |-> head, nxt |-> nxt, arr |-> << >>,
          why |-> "none", oob |-> FALSE]
    ELSE LET arr0 == [k \in 0..(n - 1) |-> NULL]
             a == AssignLoop(0, head, arr0, RailMapInit, n, nxt, files, oobSet,
                             FALSE)
         IN IF a.status = "error"
            THEN [status |-> "error", head |-> HeadOnError(head, a.arr),
                  nxt |-> nxt, arr |-> a.arr, why |-> a.why, oob |-> a.oob]
            ELSE LET r == RelinkLoop(0, a.arr, n, nxt)
                 IN [status |-> r.status, head |-> a.arr[0], nxt |-> r.nxt,
                     arr |-> a.arr, why |-> "none", oob |-> a.oob]

\* A list of len descriptors in discovery order 1, 2, ..., len.
ListOf(len) == [d \in Descs |-> IF d < len THEN d + 1 ELSE NULL]

NoCall == [head |-> NULL, nxt |-> ListOf(0), n |-> 0]

InitSort ==
    /\ \E len \in 0..MaxRails :
          /\ info_list = (IF len = 0 THEN NULL ELSE 1)
          /\ next = ListOf(len)
          /\ guid_file \in
                {f \in [Descs -> GuidFiles] :
                    \A d \in Descs : d > len => f[d] = GuidNoFile}
    /\ sort_outcome = [status |-> "none", why |-> "none", oob |-> FALSE]
    /\ sort_pre = NoCall
    /\ sort_array = << >>

SortRails ==
    /\ sort_outcome.status # "crash"
    /\ \E n \in 0..MaxRails, oobSet \in BOOLEAN :
          \E r \in {platform_sort_rails(info_list, next, guid_file, n, oobSet)} :
             /\ info_list' = r.head
             /\ next' = r.nxt
             /\ sort_outcome' = [status |-> r.status, why |-> r.why, oob |-> r.oob]
             /\ sort_pre' = [head |-> info_list, nxt |-> next, n |-> n]
             /\ sort_array' = r.arr
             /\ UNCHANGED guid_file
    /\ UNCHANGED <<idVars, negVars, thrVars, initVars>>

(***************************************************************************)
(* Strings held through a char pointer: NULL, or the characters.  The      *)
(* product names are kept as one unit each, so that a platform type is     *)
(* the name it compares equal to under strcmp.                             *)
(***************************************************************************)
NullStr == [null |-> TRUE, s |-> << >>]
Str(s) == [null |-> FALSE, s |-> s]

\* (char)EOF, what fgetc's EOF becomes when stored in char ch (line 146).
EOFCH == "\\377"

(***************************************************************************)
(* platform_data_map (lines 38-101).  Fields left out of an initializer    *)
(* are zero; latency is in microseconds.                                    *)
(***************************************************************************)
platform_data_map ==
    << [name |-> "p4d.24xlarge", topology |-> "p4d-24xl-topo.xml",
        default_dup_conns |-> 0, latency |-> 75, gdr_required |-> TRUE,
        net_flush_required |-> TRUE, default_protocol |-> "SENDRECV",
        domain_per_thread |-> 0],
       [name |-> "p4de.24xlarge", topology |-> "p4de-24xl-topo.xml",
        default_dup_conns |-> 0, latency |-> 75, gdr_required |-> TRUE,
        net_flush_required |-> TRUE, default_protocol |-> "SENDRECV",
        domain_per_thread |-> 0],
       [name |-> "p3dn.24xlarge", topology |-> "NULL",
        default_dup_conns |-> 4, latency |-> 150, gdr_required |-> FALSE,
        net_flush_required |-> TRUE, default_protocol |-> "SENDRECV",
        domain_per_thread |-> 0],
       [name |-> "p5.48xlarge", topology |-> "p5.48xl-topo.xml",
        default_dup_conns |-> 0, latency |-> 75, gdr_required |-> TRUE,
        net_flush_required |-> FALSE, default_protocol |-> "RDMA",
        domain_per_thread |-> 0],
       [name |-> "g5.48xlarge", topology |-> "g5.48xl-topo.xml",
        default_dup_conns |-> 0, latency |-> 0, gdr_required |-> FALSE,
        net_flush_required |-> TRUE, default_protocol |-> "SENDRECV",
        domain_per_thread |-> 0],
       [name |-> "trn1.32xlarge", topology |-> "NULL",
        default_dup_conns |-> 0, latency |-> 0, gdr_required |-> TRUE,
        net_flush_required |-> TRUE, default_protocol |-> "SENDRECV",
        domain_per_thread |-> 1],
       [name |-> "trn1n.32xlarge", topology |-> "NULL",
        default_dup_conns |-> 0, latency |-> 0, gdr_required |-> TRUE,
        net_flush_required |-> TRUE, default_protocol |-> "SENDRECV",
        domain_per_thread |-> 1] >>

platform_n == Len(platform_data_map)

\* strcmp(a, name) == 0 for a non-NULL a.
StrEq(a, name) == a.s = <<name>>

(***************************************************************************)
(* get_platform_type: the read loop of lines 146-153.  pos is the next     *)
(* character of the file, eof is feof(fd).  At the end of the file fgetc   *)
(* returns EOF, which is stored in the char ch, differs from '\n' and is   *)
(* appended before feof ends the loop.                                      *)
(***************************************************************************)
RECURSIVE ReadFirstLine(_, _, _, _)
ReadFirstLine(content, pos, eof, buf) ==
    IF eof THEN buf
    ELSE IF pos > Len(content)
         THEN ReadFirstLine(content, pos, TRUE, Append(buf, EOFCH))
         ELSE IF content[pos] = "\n" THEN buf
              ELSE ReadFirstLine(content, pos + 1, FALSE,
                                 Append(buf, content[pos]))

\* Lines 139-158: what platform_type is left as, by how the read went.
ReadPlatformType(content, how) ==
    IF how = "ok" THEN Str(ReadFirstLine(content, 1, FALSE, << >>)) ELSE NullStr

(***************************************************************************)
(* get_platform_data: the scan of lines 209-212, which keeps the last      *)
(* matching entry.                                                          *)
(***************************************************************************)
\* (Variant: the first record, whatever the platform type.)
ScanFirstEntry(idx, ptype, found) == 1

RECURSIVE ScanCatalog(_, _, _)
ScanCatalog(idx, ptype, found) ==
    IF idx > platform_n THEN found
    ELSE ScanCatalog(idx + 1, ptype,
                     IF StrEq(ptype, platform_data_map[idx].name) THEN idx
                     ELSE found)

(***************************************************************************)
(* Threads.  A call pushes the label it returns to; the callee's return   *)
(* pops it.                                                                 *)
(***************************************************************************)
NoLocals ==
    [ret |-> 0, have_ordering |-> FALSE,
     entry |-> "none", attempted |-> FALSE, res |-> 0,
     mismatch |-> FALSE, capped |-> FALSE, negotiated |-> FALSE,
     wrote |-> FALSE, in_cs |-> FALSE, cap_res |-> 0]

NoValue == [str |-> NullStr, data |-> NULL]

\* (Variant: a lock that never waits.)
NeverWait(m) == TRUE

\* nccl_net_ofi_mutex_lock can take mutex m.
CanLock(m) == m = 0

Goto(t, label) == pc' = [pc EXCEPT ![t] = label]

CallSub(t, entry, back) ==
    /\ pc' = [pc EXCEPT ![t] = entry]
    /\ stack' = [stack EXCEPT ![t] = <<back>> \o @]

\* A return to "idle" is the return to the thread's caller, which keeps
\* nothing of the call.
ReturnStr(t, v) ==
    /\ pc' = [pc EXCEPT ![t] = Head(stack[t])]
    /\ stack' = [stack EXCEPT ![t] = Tail(@)]
    /\ rv' = [rv EXCEPT ![t] =
                 IF Head(stack[t]) = "idle" THEN NoValue ELSE [@ EXCEPT !.str = v]]
    /\ pt_returns' = pt_returns \cup {v}

ReturnData(t, v) ==
    /\ pc' = [pc EXCEPT ![t] = Head(stack[t])]
    /\ stack' = [stack EXCEPT ![t] = Tail(@)]
    /\ rv' = [rv EXCEPT ![t] =
                 IF Head(stack[t]) = "idle" THEN NoValue ELSE [@ EXCEPT !.data = v]]
    /\ pd_returns' = pd_returns \cup {v}

(***************************************************************************)
(* get_platform_type (lines 113-177).                                       *)
(***************************************************************************)
GptLock(t) ==
    /\ ~crashed
    /\ pc[t] = "gpt_lock"
    /\ CanLock(platform_mutex)
    /\ platform_mutex' = t
    /\ Goto(t, "gpt_check")
    /\ UNCHANGED <<sortVars, initVars, negVars, stack, rv, loc, product_name, pt_init,
                   platform_type, pd_init, platform_data, pd_mutex, opens,
                   pt_failed, pt_returns, pd_returns>>

\* Lines 126-129.
GptCheck(t) ==
    /\ ~crashed
    /\ pc[t] = "gpt_check"
    /\ IF pt_init
       THEN /\ platform_mutex' = 0
            /\ ReturnStr(t, platform_type)
       ELSE /\ Goto(t, "gpt_set")
            /\ UNCHANGED <<platform_mutex, stack, rv, pt_returns>>
    /\ UNCHANGED <<sortVars, initVars, negVars, loc, product_name, pt_init, platform_type,
                   pd_init, platform_data, pd_mutex, opens, pt_failed,
                   pd_returns>>

\* Lines 131-137, and the error exit of lines 164-176 when fopen fails.
GptSet(t) ==
    /\ ~crashed
    /\ pc[t] = "gpt_set"
    /\ pt_init' = TRUE
    /\ opens' = opens + 1
    /\ \E opened \in BOOLEAN :
          IF opened
          THEN /\ Goto(t, "gpt_read")
               /\ UNCHANGED <<platform_mutex, stack, rv, pt_returns,
                              platform_type, pt_failed>>
          ELSE /\ platform_type' = NullStr
               /\ pt_failed' = TRUE
               /\ platform_mutex' = 0
               /\ ReturnStr(t, NullStr)
    /\ UNCHANGED <<sortVars, initVars, negVars, loc, product_name, pd_init,
                   platform_data, pd_mutex, pd_returns>>

\* Lines 139-176: malloc, the read loop, ferror, fclose, unlock, return.
GptRead(t) ==
    /\ ~crashed
    /\ pc[t] = "gpt_read"
    /\ \E how \in {"ok", "nomem", "ioerr"} :
          /\ platform_type' = ReadPlatformType(product_name, how)
          /\ pt_failed' = (how # "ok")
          /\ platform_mutex' = 0
          /\ ReturnStr(t, ReadPlatformType(product_name, how))
    /\ UNCHANGED <<sortVars, initVars, negVars, loc, product_name, pt_init, pd_init,
                   platform_data, pd_mutex, opens, pd_returns>>

(***************************************************************************)
(* get_platform_data (lines 187-217).                                       *)
(***************************************************************************)
GpdLock(t) ==
    /\ ~crashed
    /\ pc[t] = "gpd_lock"
    /\ CanLock(pd_mutex)
    /\ pd_mutex' = t
    /\ Goto(t, "gpd_check")
    /\ UNCHANGED <<sortVars, initVars, negVars, stack, rv, loc, product_name, pt_init,
                   platform_type, platform_mutex, pd_init, platform_data,
                   opens, pt_failed, pt_returns, pd_returns>>

\* Lines 197-203.
GpdCheck(t) ==
    /\ ~crashed
    /\ pc[t] = "gpd_check"
    /\ IF pd_init
       THEN /\ pd_mutex' = 0
            /\ ReturnData(t, platform_data)
            /\ UNCHANGED pd_init
       ELSE /\ pd_init' = TRUE
            /\ CallSub(t, "gpt_lock", "gpd_scan")
            /\ UNCHANGED <<pd_mutex, rv, pd_returns>>
    /\ UNCHANGED <<sortVars, initVars, negVars, loc, product_name, pt_init, platform_type,
                   platform_mutex, platform_data, opens, pt_failed, pt_returns>>

\* Lines 204-216.
GpdScan(t) ==
    /\ ~crashed
    /\ pc[t] = "gpd_scan"
    /\ pd_mutex' = 0
    /\ IF rv[t].str.null
       THEN /\ ReturnData(t, NULL)
            /\ UNCHANGED platform_data
       ELSE /\ platform_data' = ScanCatalog(1, rv[t].str, platform_data)
            /\ ReturnData(t, ScanCatalog(1, rv[t].str, platform_data))
    /\ UNCHANGED <<sortVars, initVars, negVars, loc, product_name, pt_init, platform_type,
                   platform_mutex, pd_init, opens, pt_failed, pt_returns>>

\* A caller of get_platform_type, and one of get_platform_data.
CallGetPlatformType(t) ==
    /\ ~crashed
    /\ pc[t] = "idle"
    /\ CallSub(t, "gpt_lock", "idle")
    /\ UNCHANGED <<sortVars, initVars, negVars, idVars, rv, loc>>

CallGetPlatformData(t) ==
    /\ ~crashed
    /\ pc[t] = "idle"
    /\ CallSub(t, "gpd_lock", "idle")
    /\ UNCHANGED <<sortVars, initVars, negVars, idVars, rv, loc>>

(***************************************************************************)
(* The endpoint capability negotiator.                                      *)
(***************************************************************************)
Unsupported(r) == r \in {0 - FI_EOPNOTSUPP, 0 - FI_ENOPROTOOPT}

\* What fi_setopt may return: success, the two "unsupported" codes, an error.
SetoptResults == {0, 0 - FI_EOPNOTSUPP, 0 - FI_ENOPROTOOPT, 0 - EIO}

\* validate_rdma_write (lines 223-255), by what fi_getopt returned and gave.
validate_rdma_write(getopt_ret, optlen_ok, optval) ==
    IF getopt_ret # 0 THEN getopt_ret
    ELSE IF ~optlen_ok THEN 0 - EINVAL
    ELSE IF optval THEN 0 - EINVAL
    ELSE 0

\* (Variant: an error is taken for "unsupported".)
ErrorAsUnsupported(r) == [ret |-> 0, have_ordering |-> r = 0]

\* configure_ep_inorder (lines 286-313), by what fi_setopt returned.
configure_ep_inorder(r) ==
    IF Unsupported(r) THEN [ret |-> 0, have_ordering |-> FALSE]
    ELSE IF r # 0 THEN [ret |-> r, have_ordering |-> FALSE]
    ELSE [ret |-> 0, have_ordering |-> TRUE]

\* (Variant: "unsupported" is returned like any other error.)
MaxMsgStrict(r) == r

\* configure_ep_max_msg_size (lines 322-344), by what fi_setopt returned.
configure_ep_max_msg_size(r) == IF Unsupported(r) THEN 0 ELSE r

\* configure_nccl_proto (lines 259-276): the new NCCL_PROTO and the result.
configure_nccl_proto(env, setenv_ok) ==
    IF env = "unset"
    THEN IF setenv_ok THEN [ret |-> 0, env |-> "simple"]
         ELSE [ret |-> 0 - ENOMEM, env |-> env]
    ELSE [ret |-> 0, env |-> env]

DomainStateOf(cfgd, need) ==
    IF ~cfgd THEN "Unconfigured"
    ELSE IF need THEN "ConfiguredOrdered" ELSE "ConfiguredUnordered"

DomainState == DomainStateOf(nccl_proto_configured, need_ordering)

\* (Variant of line 699: every call tries the in-order option.)
AlwaysAttempt(need, cfgd) == TRUE

\* (Variant of line 699: only the first call tries it.)
AttemptFirstOnly(need, cfgd) == ~cfgd

\* Line 699: whether this call tries the in-order option.
NeedAttempt(need, cfgd) == need \/ ~cfgd

\* (Variant: no override.)
NoOverride(cfgd, need) == [cfgd |-> cfgd, need |-> need]

\* Lines 692-696: the P5 + RDMA override.
P5Override(cfgd, need) ==
    IF ~cfgd THEN [cfgd |-> TRUE, need |-> FALSE]
    ELSE [cfgd |-> cfgd, need |-> need]

\* Lines 711-721: the mismatch check, then the first call's record.
\* (Variant: the outcome of every attempt is recorded, then compared.)
RecordThenCheck(cfgd, need, have) ==
    [ret |-> IF need /\ ~have THEN 0 - ENOTSUP ELSE 0,
     cfgd |-> TRUE, need |-> have, first |-> ~cfgd]

OrderingBlock(cfgd, need, have) ==
    IF need /\ ~have
    THEN [ret |-> 0 - ENOTSUP, cfgd |-> cfgd, need |-> need, first |-> FALSE]
    ELSE IF ~cfgd
    THEN [ret |-> 0, cfgd |-> TRUE, need |-> have, first |-> TRUE]
    ELSE [ret |-> 0, cfgd |-> cfgd, need |-> need, first |-> FALSE]

\* A return before the lock is taken (the exit label, line 745).
FinishEarly(t, r) ==
    /\ Goto(t, "cfg_exit")
    /\ loc' = [loc EXCEPT ![t].ret = r]

\* A jump to the unlock label (line 741) with ret = r, the call's locals
\* being l.
FinishLocked(t, r, l) ==
    /\ Goto(t, "cfg_unlock")
    /\ loc' = [loc EXCEPT ![t] = [l EXCEPT !.ret = r]]

\* Lines 598-612: the endpoint and provider checks, up to get_platform_data.
CallConfig(t) ==
    /\ ~crashed
    /\ pc[t] = "idle"
    /\ \E ep_null \in BOOLEAN, prov_efa \in BOOLEAN, gdr_check \in BOOLEAN :
          IF ep_null
          THEN FinishEarly(t, 0 - EINVAL) /\ UNCHANGED stack
          ELSE IF ~prov_efa
          THEN FinishEarly(t, 0) /\ UNCHANGED stack
          ELSE IF gdr_check
          THEN CallSub(t, "gpd_lock", "cfg_gdr") /\ UNCHANGED loc
          ELSE Goto(t, "cfg_rdma") /\ UNCHANGED <<stack, loc>>
    /\ UNCHANGED <<sortVars, initVars, idVars, negVars, rv>>

\* Lines 613-618: the GDR check on the record get_platform_data returned.
CfgGdr(t) ==
    /\ ~crashed
    /\ pc[t] = "cfg_gdr"
    /\ \E gdr_supported \in BOOLEAN :
          IF /\ rv[t].data # NULL
             /\ platform_data_map[rv[t].data].gdr_required
             /\ ~gdr_supported
          THEN FinishEarly(t, 0 - EINVAL)
          ELSE Goto(t, "cfg_rdma") /\ UNCHANGED loc
    /\ rv' = [rv EXCEPT ![t] = NoValue]
    /\ UNCHANGED <<sortVars, initVars, idVars, negVars, stack>>

\* Lines 626-662: the native RDMA write check and the choice of the option.
CfgRdma(t) ==
    /\ ~crashed
    /\ pc[t] = "cfg_rdma"
    /\ \E native_check \in BOOLEAN, getopt_ret \in {0, 0 - EIO},
          optlen_ok \in BOOLEAN, optval \in BOOLEAN :
          LET v == validate_rdma_write(getopt_ret, optlen_ok, optval)
          IN IF selected_protocol = "RDMA" /\ native_check /\ v # 0
             THEN FinishEarly(t, v)
             ELSE IF selected_protocol \notin {"SENDRECV", "RDMA"}
             THEN FinishEarly(t, 0 - EINVAL)
             ELSE Goto(t, "cfg_lock") /\ UNCHANGED loc
    /\ UNCHANGED <<sortVars, initVars, idVars, negVars, stack, rv>>

\* Line 664.
CfgLock(t) ==
    /\ ~crashed
    /\ pc[t] = "cfg_lock"
    /\ CanLock(cfg_mutex)
    /\ cfg_mutex' = t
    /\ Goto(t, "cfg_p5")
    /\ loc' = [loc EXCEPT ![t].entry = DomainState, ![t].in_cs = TRUE]
    /\ UNCHANGED <<sortVars, initVars, idVars, negShared, stack, rv>>

\* Lines 689-691: get_platform_type is called only when NCCL_PROTO is unset
\* and the protocol is RDMA.
CfgP5(t) ==
    /\ ~crashed
    /\ pc[t] = "cfg_p5"
    /\ IF env_NCCL_PROTO = "unset" /\ selected_protocol = "RDMA"
       THEN CallSub(t, "gpt_lock", "cfg_p5cmp")
       ELSE Goto(t, "cfg_neg") /\ UNCHANGED stack
    /\ UNCHANGED <<sortVars, initVars, idVars, negVars, rv, loc>>

\* Lines 691-697: strcmp on what get_platform_type returned.  On NULL the
\* comparison is undefined: the process dies, or the comparison gives one of
\* its two answers; strcmp_null keeps which, once it has happened.
CfgP5Cmp(t) ==
    /\ ~crashed
    /\ pc[t] = "cfg_p5cmp"
    /\ \E ub \in (IF rv[t].str.null /\ strcmp_null = "unknown"
                  THEN {"crash", "equal", "differ"} ELSE {strcmp_null}) :
          /\ strcmp_null' = ub
          /\ IF rv[t].str.null /\ ub = "crash"
             THEN /\ crashed' = TRUE
                  /\ UNCHANGED <<pc, rv, loc, nccl_proto_configured,
                                 need_ordering, configured_by, writes>>
             ELSE LET eq == IF rv[t].str.null THEN ub = "equal"
                            ELSE StrEq(rv[t].str, "p5.48xlarge")
                      new == IF eq
                             THEN P5Override(nccl_proto_configured, need_ordering)
                             ELSE [cfgd |-> nccl_proto_configured,
                                   need |-> need_ordering]
                      wr == eq /\ ~nccl_proto_configured
                  IN /\ nccl_proto_configured' = new.cfgd
                     /\ need_ordering' = new.need
                     /\ configured_by' = IF wr THEN "p5" ELSE configured_by
                     /\ writes' = IF wr THEN writes + 1 ELSE writes
                     /\ loc' = [loc EXCEPT ![t].wrote = @ \/ wr]
                     /\ rv' = [rv EXCEPT ![t] = NoValue]
                     /\ Goto(t, "cfg_neg")
                     /\ UNCHANGED crashed
    /\ UNCHANGED <<sortVars, initVars, idVars, stack, cfg_mutex, env_NCCL_PROTO,
                   selected_protocol>>

\* Lines 699-709: the attempt to set the in-order option on the endpoint.
CfgNeg(t) ==
    /\ ~crashed
    /\ pc[t] = "cfg_neg"
    /\ IF NeedAttempt(need_ordering, nccl_proto_configured)
       THEN \E r \in SetoptResults :
               LET c == configure_ep_inorder(r)
                   l == [loc[t] EXCEPT !.attempted = TRUE, !.res = r,
                                       !.have_ordering = c.have_ordering]
               IN IF c.ret # 0
                  THEN FinishLocked(t, c.ret, l)
                  ELSE /\ Goto(t, "cfg_rec")
                       /\ loc' = [loc EXCEPT ![t] = l]
       ELSE /\ Goto(t, "cfg_max")
            /\ loc' = [loc EXCEPT ![t].negotiated = TRUE]
    /\ UNCHANGED <<sortVars, initVars, idVars, negVars, stack, rv>>

\* Lines 711-731: the mismatch check, the first call's record, NCCL_PROTO.
CfgRec(t) ==
    /\ ~crashed
    /\ pc[t] = "cfg_rec"
    /\ \E b \in {OrderingBlock(nccl_proto_configured, need_ordering,
                              loc[t].have_ordering)} :
          /\ nccl_proto_configured' = b.cfgd
          /\ need_ordering' = b.need
          /\ writes' = IF b.first THEN writes + 1 ELSE writes
          /\ configured_by' =
                IF ~b.first THEN configured_by
                ELSE IF loc[t].have_ordering THEN "ordered" ELSE "unsupported"
          /\ IF b.ret # 0
             THEN /\ FinishLocked(t, b.ret,
                                  [loc[t] EXCEPT !.mismatch = TRUE,
                                                 !.wrote = @ \/ b.first])
                  /\ UNCHANGED env_NCCL_PROTO
             ELSE IF b.first /\ ~loc[t].have_ordering
             THEN \E setenv_ok \in BOOLEAN :
                     LET p == configure_nccl_proto(env_NCCL_PROTO, setenv_ok)
                     IN /\ env_NCCL_PROTO' = p.env
                        /\ IF p.ret # 0
                           THEN FinishLocked(t, 0 - ENOTSUP,
                                             [loc[t] EXCEPT !.wrote = TRUE])
                           ELSE /\ Goto(t, "cfg_max")
                                /\ loc' = [loc EXCEPT ![t].wrote = TRUE,
                                                      ![t].negotiated = TRUE]
             ELSE /\ Goto(t, "cfg_max")
                  /\ loc' = [loc EXCEPT ![t].wrote = @ \/ b.first,
                                        ![t].negotiated = TRUE]
                  /\ UNCHANGED env_NCCL_PROTO
    /\ UNCHANGED <<sortVars, initVars, idVars, stack, rv, cfg_mutex, selected_protocol,
                   strcmp_null, crashed>>

\* Lines 733-739: the maximum message size on RDMA, then the unlock label.
CfgMax(t) ==
    /\ ~crashed
    /\ pc[t] = "cfg_max"
    /\ IF selected_protocol = "RDMA"
       THEN \E r \in SetoptResults :
               FinishLocked(t, configure_ep_max_msg_size(r),
                            [loc[t] EXCEPT !.capped = TRUE, !.cap_res = r])
       ELSE FinishLocked(t, 0, loc[t])
    /\ UNCHANGED <<sortVars, initVars, idVars, negVars, stack, rv>>

\* Lines 741-746: the unlock label, then the exit label: return ret.
CfgUnlock(t) ==
    /\ ~crashed
    /\ pc[t] = "cfg_unlock"
    /\ cfg_mutex' = 0
    /\ Goto(t, "idle")
    /\ loc' = [loc EXCEPT ![t] = NoLocals]
    /\ UNCHANGED <<sortVars, initVars, idVars, negShared, stack, rv>>

\* Lines 745-746: the exit label reached without the lock: return ret.
CfgExit(t) ==
    /\ ~crashed
    /\ pc[t] = "cfg_exit"
    /\ Goto(t, "idle")
    /\ loc' = [loc EXCEPT ![t] = NoLocals]
    /\ UNCHANGED <<sortVars, initVars, idVars, negVars, stack, rv>>

(***************************************************************************)
(* platform_init (lines 403-593) and configure_nvls_option (349-391).      *)
(* An environment variable is "unset" or holds its value; a parameter      *)
(* (ofi_nccl_*, OFI_NCCL_NIC_DUP_CONNS) is "unset" or -1 when the user    *)
(* gave none.                                                               *)
(***************************************************************************)
EnvNames ==
    {"FI_PROVIDER", "FI_EFA_FORK_SAFE", "RDMAV_FORK_SAFE", "NCCL_NVLS_ENABLE",
     "NCCL_NET_FORCE_FLUSH", "NCCL_NVLSTREE_MAX_CHUNKSIZE",
     "NCCL_NVLS_CHUNKSIZE", "NCCL_TOPO_FILE"}

\* What can go wrong in one call: a setenv that fails (by the variable it
\* sets) or the snprintf of the topology path.
InitFailures ==
    {"none", "FORK_SAFE", "NCCL_NVLS_ENABLE", "NCCL_NET_FORCE_FLUSH",
     "NCCL_NVLSTREE_MAX_CHUNKSIZE", "NCCL_NVLS_CHUNKSIZE", "topology_path",
     "NCCL_TOPO_FILE"}

\* dlsym and ncclGetVersion: no symbol, a failing call, a version before
\* 2.18.5, a later one (lines 362-378).
NvlsWorlds == {"nosym", "fail", "old", "new"}

\* Lines 457-461: the name of the fork-safety variable, by fi_version().
fork_safe_var_name(libnew) ==
    IF libnew THEN "FI_EFA_FORK_SAFE" ELSE "RDMAV_FORK_SAFE"

\* A step of platform_init that has not failed leaves st; one that fails
\* leaves st with ret = r and the rest of the function not run.
InitFail(st, r) == [st EXCEPT !.ret = r, !.exited = TRUE]

\* Lines 420-427: FI_PROVIDER and *provider_filter.
InitProvider(st) ==
    IF st.env["FI_PROVIDER"] = "unset"
    THEN [st EXCEPT !.provider_filter = "efa", !.select_efa = TRUE]
    ELSE IF st.env["FI_PROVIDER"] = "efa"
    THEN [st EXCEPT !.select_efa = TRUE]
    ELSE st

\* Lines 462-470: the fork-safety variable, set to 1 unless it is set.
InitForkSafe(st, w) ==
    LET name == fork_safe_var_name(w.libnew)
    IN IF st.exited \/ st.env[name] # "unset" THEN st
       ELSE IF w.fail = "FORK_SAFE" THEN InitFail(st, 0 - ENOMEM)
       ELSE [st EXCEPT !.env[name] = "1"]

\* configure_nvls_option (lines 349-391) and lines 472-476.
configure_nvls_option(st, w) ==
    IF st.exited \/ st.env["NCCL_NVLS_ENABLE"] # "unset" THEN st
    ELSE IF w.nvls = "nosym" THEN st
    ELSE IF w.nvls = "fail" THEN InitFail(st, 0 - ENOTSUP)
    ELSE IF w.nvls = "old"
    THEN IF w.fail = "NCCL_NVLS_ENABLE" THEN InitFail(st, 0 - ENOMEM)
         ELSE [st EXCEPT !.env["NCCL_NVLS_ENABLE"] = "0"]
    ELSE st

\* Lines 478-497: NCCL_NET_FORCE_FLUSH=0 where no flush is required.
InitFlush(st, pd, w) ==
    IF \/ st.exited
       \/ pd = NULL
       \/ platform_data_map[pd].net_flush_required
       \/ st.env["NCCL_NET_FORCE_FLUSH"] # "unset"
    THEN st
    ELSE IF w.fail = "NCCL_NET_FORCE_FLUSH" THEN InitFail(st, 0 - ENOMEM)
    ELSE [st EXCEPT !.env["NCCL_NET_FORCE_FLUSH"] = "0"]

\* setenv(name, "524288", 0) (lines 514 and 522): no change when set.
InitChunk(st, name, w) ==
    IF st.exited \/ st.env[name] # "unset" THEN st
    ELSE IF w.fail = name THEN InitFail(st, 0 - ENOMEM)
    ELSE [st EXCEPT !.env[name] = "524288"]

\* Lines 534-561: NCCL_TOPO_FILE from the record's topology.  When the
\* variable is set, get_platform_type() is called for the log line: the
\* cache is filled by then, and a NULL identity goes to a %s.
InitTopo(st, pd, ptype, w) ==
    IF st.exited THEN st
    ELSE IF st.env["NCCL_TOPO_FILE"] # "unset"
    THEN [st EXCEPT !.null_logged = ptype.null]
    ELSE IF pd # NULL /\ platform_data_map[pd].topology # "NULL"
    THEN IF w.fail = "topology_path" THEN InitFail(st, 0 - ENOMEM)
         ELSE IF w.fail = "NCCL_TOPO_FILE" THEN InitFail(st, 0 - ENOMEM)
         ELSE [st EXCEPT !.env["NCCL_TOPO_FILE"] =
                            platform_data_map[pd].topology]
    ELSE st

\* Lines 563-564.
InitDupConns(st, pd) ==
    IF ~st.exited /\ st.nic_dup_conns = 0 /\ pd # NULL
    THEN [st EXCEPT !.nic_dup_conns = platform_data_map[pd].default_dup_conns]
    ELSE st

\* Line 567: the record provides the latency.
LatencyFromRecord(pd) == pd # NULL /\ platform_data_map[pd].latency >= 0

\* (Variant of line 566: the latency is set whatever the user gave.)
LatencyAlwaysUnset(p) == TRUE

\* Line 566: the user gave no latency.
LatencyUnset(p) == p.net_latency < 0

\* Lines 566-575.
InitLatency(st, pd, p) ==
    IF st.exited \/ ~LatencyUnset(p) THEN st
    ELSE IF LatencyFromRecord(pd)
    THEN [st EXCEPT !.net_latency = platform_data_map[pd].latency]
    ELSE [st EXCEPT !.net_latency = 150]

\* Lines 577-579.
InitProtocol(st, pd, p) ==
    IF ~st.exited /\ st.select_efa /\ p.protocol = "unset" /\ pd # NULL
    THEN [st EXCEPT !.protocol = platform_data_map[pd].default_protocol]
    ELSE st

\* Lines 581-588.
InitDomainPerThread(st, pd, p) ==
    IF st.exited THEN st
    ELSE IF p.domain_per_thread # 0 - 1
    THEN [st EXCEPT !.domain_per_thread = p.domain_per_thread]
    ELSE IF pd # NULL
    THEN [st EXCEPT !.domain_per_thread = platform_data_map[pd].domain_per_thread]
    ELSE [st EXCEPT !.domain_per_thread = 0]

\* The function after get_platform_data has returned pd (lines 420-592),
\* from the tunables tn, with parameters p, in world w.
platform_init(tn, pd, ptype, p, w) ==
    LET s0  == [tn EXCEPT !.ret = 0, !.exited = FALSE, !.select_efa = FALSE,
                          !.null_logged = FALSE]
        s1  == InitProvider(s0)
        s2  == InitForkSafe(s1, w)
        s3  == configure_nvls_option(s2, w)
        s4  == InitFlush(s3, pd, w)
        s5  == InitChunk(s4, "NCCL_NVLSTREE_MAX_CHUNKSIZE", w)
        s6  == InitChunk(s5, "NCCL_NVLS_CHUNKSIZE", w)
        s7  == InitTopo(s6, pd, ptype, w)
        s8  == InitDupConns(s7, pd)
        s9  == InitLatency(s8, pd, p)
        s10 == InitProtocol(s9, pd, p)
    IN InitDomainPerThread(s10, pd, p)

\* Line 412: platform_init begins with get_platform_data().  The plugin
\* calls platform_init once, when it is created.
CallPlatformInit(t) ==
    /\ ~crashed
    /\ pc[t] = "idle"
    /\ init_outcome.status = "none"
    /\ CallSub(t, "gpd_lock", "init_run")
    /\ init_pre' = tun
    /\ init_outcome' = [status |-> "running", pd |-> NULL]
    /\ UNCHANGED <<sortVars, negVars, idVars, rv, loc, tun, params>>

\* Lines 420-592, with the record get_platform_data returned.
InitRun(t) ==
    /\ ~crashed
    /\ pc[t] = "init_run"
    /\ \E libnew \in BOOLEAN, nvls \in NvlsWorlds, fail \in InitFailures :
          \E r \in {platform_init(tun, rv[t].data, platform_type, params,
                                  [libnew |-> libnew, nvls |-> nvls,
                                   fail |-> fail])} :
             /\ tun' = r
             /\ selected_protocol' = r.protocol
             /\ init_outcome' = [status |-> "returned", pd |-> rv[t].data]
    /\ Goto(t, "idle")
    /\ rv' = [rv EXCEPT ![t] = NoValue]
    /\ UNCHANGED <<sortVars, idVars, nccl_proto_configured, need_ordering,
                   cfg_mutex, env_NCCL_PROTO, strcmp_null, crashed,
                   configured_by, writes, stack, loc, init_pre, params>>

(***************************************************************************)
(* Initial states and specifications.                                       *)
(***************************************************************************)
SortIdle ==
    /\ info_list = NULL
    /\ next = ListOf(0)
    /\ guid_file = [d \in Descs |-> GuidNoFile]
    /\ sort_outcome = [status |-> "none", why |-> "none", oob |-> FALSE]
    /\ sort_pre = NoCall
    /\ sort_array = << >>

InitCaches ==
    /\ pt_init = FALSE
    /\ platform_type = NullStr
    /\ platform_mutex = 0
    /\ pd_init = FALSE
    /\ platform_data = NULL
    /\ pd_mutex = 0
    /\ opens = 0
    /\ pt_failed = FALSE
    /\ pt_returns = {}
    /\ pd_returns = {}

InitThreads ==
    /\ pc = [t \in Threads |-> "idle"]
    /\ stack = [t \in Threads |-> << >>]
    /\ rv = [t \in Threads |-> NoValue]
    /\ loc = [t \in Threads |-> NoLocals]

InitNegotiator ==
    /\ nccl_proto_configured = FALSE
    /\ need_ordering = FALSE
    /\ cfg_mutex = 0
    /\ crashed = FALSE
    /\ configured_by = "none"
    /\ writes = 0
    /\ strcmp_null = "unknown"

\* The tunables with nothing set by the user, the protocol being proto.
NoTunables(proto) ==
    [env |-> [n \in EnvNames |-> "unset"], provider_filter |-> "caller",
     nic_dup_conns |-> 0, net_latency |-> 0 - 1, domain_per_thread |-> 0,
     protocol |-> proto, ret |-> 0, exited |-> FALSE, select_efa |-> FALSE,
     null_logged |-> FALSE]

NoParams ==
    [nic_dup_conns |-> 0 - 1, net_latency |-> 0 - 1, protocol |-> "unset",
     domain_per_thread |-> 0 - 1]

InitIdle ==
    /\ tun = NoTunables(selected_protocol)
    /\ params = NoParams
    /\ init_pre = tun
    /\ init_outcome = [status |-> "none", pd |-> NULL]

\* The descriptor files of the identity specification: a known platform, an
\* unknown one, with and without the newline, two lines, an empty file.
ProductNameFiles ==
    { <<"p4d.24xlarge", "\n">>, <<"p5.48xlarge", "\n">>, <<"m5.large", "\n">>,
      <<"p5.48xlarge">>, <<"p5.48xlarge", "\n", "x", "\n">>, << >> }

\* The rail ordering engine alone.
InitSortSpec ==
    /\ InitSort
    /\ InitCaches /\ InitThreads /\ InitNegotiator
    /\ product_name = <<"p5.48xlarge", "\n">>
    /\ env_NCCL_PROTO = "unset"
    /\ selected_protocol = "SENDRECV"
    /\ InitIdle

NextSort == SortRails

SpecSort == InitSortSpec /\ [][NextSort]_vars

\* Threads calling get_platform_type and get_platform_data.
InitId ==
    /\ SortIdle
    /\ InitCaches /\ InitThreads /\ InitNegotiator
    /\ product_name \in ProductNameFiles
    /\ env_NCCL_PROTO = "unset"
    /\ selected_protocol = "SENDRECV"
    /\ InitIdle

NextId ==
    \E t \in Threads :
        \/ CallGetPlatformType(t)
        \/ CallGetPlatformData(t)
        \/ GptLock(t) \/ GptCheck(t) \/ GptSet(t) \/ GptRead(t)
        \/ GpdLock(t) \/ GpdCheck(t) \/ GpdScan(t)

SpecId == InitId /\ [][NextId]_vars

\* Threads calling platform_config_endpoint.
InitNeg ==
    /\ SortIdle
    /\ InitCaches /\ InitThreads /\ InitNegotiator
    /\ product_name \in {<<"p4d.24xlarge", "\n">>, <<"p5.48xlarge", "\n">>}
    /\ env_NCCL_PROTO \in {"unset", "LL"}
    /\ selected_protocol \in {"SENDRECV", "RDMA", "TCP"}
    /\ InitIdle

NextNeg ==
    \E t \in Threads :
        \/ CallConfig(t)
        \/ GptLock(t) \/ GptCheck(t) \/ GptSet(t) \/ GptRead(t)
        \/ GpdLock(t) \/ GpdCheck(t) \/ GpdScan(t)
        \/ CfgGdr(t) \/ CfgRdma(t) \/ CfgLock(t) \/ CfgP5(t) \/ CfgP5Cmp(t)
        \/ CfgNeg(t) \/ CfgRec(t) \/ CfgMax(t)
        \/ CfgUnlock(t) \/ CfgExit(t)

SpecNeg == InitNeg /\ [][NextNeg]_vars

\* The environments the user may have prepared: nothing set, everything
\* set, one variable set, a provider other than efa.
UserValue(n) == IF n = "FI_PROVIDER" THEN "efa" ELSE "user"

EnvPresets ==
    {[n \in EnvNames |-> "unset"], [n \in EnvNames |-> UserValue(n)]}
        \cup {[n \in EnvNames |-> IF n = m THEN UserValue(n) ELSE "unset"] :
                 m \in EnvNames}
        \cup {[n \in EnvNames |-> IF n = "FI_PROVIDER" THEN "tcp" ELSE "unset"]}

\* The parameters the user may have given.
ParamSets ==
    [nic_dup_conns : {0 - 1, 0, 2}, net_latency : {0 - 1, 20},
     protocol : {"unset", "RDMA"}, domain_per_thread : {0 - 1, 1}]

\* The catalog's platforms, a platform the catalog does not know.
PlatformFiles ==
    {<<platform_data_map[i].name, "\n">> : i \in 1..platform_n}
        \cup {<<"m5.large", "\n">>}

\* The thread that runs platform_init at startup.
InitThread == 1

\* One thread calling platform_init.
InitInit ==
    /\ SortIdle
    /\ InitCaches /\ InitThreads /\ InitNegotiator
    /\ product_name \in PlatformFiles
    /\ env_NCCL_PROTO = "unset"
    /\ params \in ParamSets
    /\ selected_protocol =
          (IF params.protocol = "unset" THEN "SENDRECV" ELSE params.protocol)
    /\ \E e \in EnvPresets :
          tun = [NoTunables(selected_protocol) EXCEPT
                    !.env = e,
                    !.nic_dup_conns = IF params.nic_dup_conns = 0 - 1 THEN 0
                                      ELSE params.nic_dup_conns,
                    !.net_latency = params.net_latency,
                    !.domain_per_thread = IF params.domain_per_thread = 0 - 1
                                          THEN 0 ELSE params.domain_per_thread]
    /\ init_pre = tun
    /\ init_outcome = [status |-> "none", pd |-> NULL]

NextInit ==
    \/ CallPlatformInit(InitThread)
    \/ GptLock(InitThread) \/ GptCheck(InitThread) \/ GptSet(InitThread)
    \/ GptRead(InitThread)
    \/ GpdLock(InitThread) \/ GpdCheck(InitThread) \/ GpdScan(InitThread)
    \/ InitRun(InitThread)

SpecInit == InitInit /\ [][NextInit]_vars

\* All four entry points together: any thread may call get_platform_type,
\* get_platform_data and platform_config_endpoint at any time, and
\* platform_init is called once, by any thread.
InitAll ==
    /\ SortIdle
    /\ InitCaches /\ InitThreads /\ InitNegotiator
    /\ product_name = <<"p5.48xlarge", "\n">>
    /\ env_NCCL_PROTO = "unset"
    /\ params \in {NoParams, [NoParams EXCEPT !.protocol = "RDMA"]}
    /\ selected_protocol =
          (IF params.protocol = "unset" THEN "SENDRECV" ELSE params.protocol)
    /\ tun = NoTunables(selected_protocol)
    /\ init_pre = tun
    /\ init_outcome = [status |-> "none", pd |-> NULL]

\* Thread t enters one of the four functions.
CallStep(t) ==
    \/ CallGetPlatformType(t)
    \/ CallGetPlatformData(t)
    \/ CallPlatformInit(t)
    \/ CallConfig(t)

\* Thread t takes one of the three mutexes.
LockStep(t) == GptLock(t) \/ GpdLock(t) \/ CfgLock(t)

\* Thread t goes on inside a call, other than by taking a mutex.
RunStep(t) ==
    \/ GptCheck(t) \/ GptSet(t) \/ GptRead(t)
    \/ GpdCheck(t) \/ GpdScan(t)
    \/ InitRun(t)
    \/ CfgGdr(t) \/ CfgRdma(t) \/ CfgP5(t) \/ CfgP5Cmp(t)
    \/ CfgNeg(t) \/ CfgRec(t) \/ CfgMax(t)
    \/ CfgUnlock(t) \/ CfgExit(t)

NextAll == \E t \in Threads : CallStep(t) \/ LockStep(t) \/ RunStep(t)

\* A thread inside a call keeps running, and a thread waiting for a mutex
\* that is released again and again gets it; nothing makes a thread call.
FairAll ==
    \A t \in Threads : WF_vars(RunStep(t)) /\ SF_vars(LockStep(t))

SpecAll == InitAll /\ [][NextAll]_vars /\ FairAll


(***************************************************************************)
(* Properties of the endpoint capability negotiator.                        *)
(***************************************************************************)
\* The calls that are past the mismatch check and the record (lines 711-731).
PastRecord(t) == pc[t] \in {"cfg_max", "cfg_unlock"}

\* The calls whose attempt has been made (lines 702-709).
PastAttempt(t) == pc[t] \in {"cfg_rec", "cfg_max", "cfg_unlock"}

\* C1: once nccl_proto_configured is true no step of any interleaving of
\* platform_config_endpoint calls makes it false again, and no step changes
\* need_ordering from the value it had when nccl_proto_configured became
\* true.
C1_ConfiguredIsFinal ==
    [][nccl_proto_configured =>
          /\ nccl_proto_configured'
          /\ need_ordering' = need_ordering]_vars

\* A call that found the domain configured has had its attempt answered
\* differently from what the domain recorded, and is about to return.
C1_Witness ==
    \E t \in Threads :
        /\ pc[t] = "cfg_unlock"
        /\ loc[t].entry = "ConfiguredOrdered"
        /\ loc[t].attempted
        /\ ~loc[t].have_ordering
        /\ nccl_proto_configured /\ need_ordering

\* C2: a call that takes the negotiation lock with the domain
\* ConfiguredOrdered leaves it ConfiguredOrdered, always tries the in-order
\* option, gets past the ordering negotiation when fi_setopt returns 0, and
\* otherwise (unsupported, or an error) reaches the unlock label with a
\* negative ret and without having got past the negotiation.  Calls that
\* return before the lock (NULL endpoint, a provider other than efa, the GDR
\* and RDMA write checks, an unknown protocol) make no attempt and are not
\* spoken of.
C2_OrderedStays ==
    \A t \in Threads :
        loc[t].entry = "ConfiguredOrdered" =>
            /\ DomainState = "ConfiguredOrdered"
            /\ PastAttempt(t) => loc[t].attempted
            /\ (PastRecord(t) /\ loc[t].res = 0) => loc[t].negotiated
            /\ (PastAttempt(t) /\ loc[t].res # 0) =>
                  /\ pc[t] \in {"cfg_rec", "cfg_unlock"}
                  /\ ~loc[t].negotiated
                  /\ pc[t] = "cfg_unlock" =>
                        /\ loc[t].ret < 0
                        /\ Unsupported(loc[t].res) => loc[t].ret = 0 - ENOTSUP

\* On a ConfiguredOrdered domain one call has been refused for "unsupported"
\* while the domain has seen more than the call that configured it.
C2_Witness ==
    \E t \in Threads :
        /\ pc[t] = "cfg_unlock"
        /\ loc[t].entry = "ConfiguredOrdered"
        /\ Unsupported(loc[t].res)
        /\ loc[t].ret = 0 - ENOTSUP
        /\ \E u \in Threads \ {t} : pc[u] = "cfg_lock"

\* C3: a first call whose fi_setopt reports unsupported leaves the domain
\* ConfiguredUnordered; the domain then stays so, and a call that takes the
\* lock with the domain ConfiguredUnordered neither tries the in-order option
\* nor fails on the ordering mismatch.
C3_UnsupportedFallback ==
    /\ \A t \in Threads :
          (/\ loc[t].entry = "Unconfigured"
           /\ loc[t].attempted
           /\ Unsupported(loc[t].res)
           /\ PastRecord(t)) => DomainState = "ConfiguredUnordered"
    /\ configured_by = "unsupported" => DomainState = "ConfiguredUnordered"
    /\ \A t \in Threads :
          loc[t].entry = "ConfiguredUnordered" =>
              /\ ~loc[t].attempted
              /\ ~loc[t].mismatch
              /\ PastAttempt(t) => (pc[t] # "cfg_rec" /\ loc[t].negotiated)

\* The domain was configured by an unsupported first attempt and a later
\* call has gone past the negotiation on it.
C3_Witness ==
    /\ configured_by = "unsupported"
    /\ \E t \in Threads :
          /\ loc[t].entry = "ConfiguredUnordered"
          /\ pc[t] = "cfg_unlock"
          /\ loc[t].ret = 0

\* C4: a call that took the lock with the domain Unconfigured and whose
\* fi_setopt returned an error other than unsupported reaches the unlock
\* label with that error as ret, having written neither flag: the domain is
\* Unconfigured when the lock is released.
C4_ErrorKeepsUnconfigured ==
    \A t \in Threads :
        (/\ loc[t].entry = "Unconfigured"
         /\ loc[t].attempted
         /\ loc[t].res # 0
         /\ ~Unsupported(loc[t].res)) =>
            /\ pc[t] = "cfg_unlock"
            /\ loc[t].ret = loc[t].res
            /\ ~loc[t].wrote
            /\ DomainState = "Unconfigured"
            /\ writes = 0

\* A first call is at the unlock label with fi_setopt's error.
C4_Witness ==
    \E t \in Threads :
        /\ pc[t] = "cfg_unlock"
        /\ loc[t].entry = "Unconfigured"
        /\ loc[t].attempted
        /\ loc[t].res = 0 - EIO
        /\ loc[t].ret = 0 - EIO

\* C5: at most one call at a time is between lock and unlock; a call that is
\* there and has not written the flags sees them as it found them at the
\* lock; need_ordering is written by at most one call; and a call waits at
\* the lock while another is inside.
C5_OneNegotiationAtATime ==
    /\ Cardinality({t \in Threads : loc[t].in_cs}) <= 1
    /\ \A t \in Threads : loc[t].in_cs <=> cfg_mutex = t
    /\ \A t \in Threads :
          (loc[t].in_cs /\ ~loc[t].wrote) => DomainState = loc[t].entry
    /\ \A t \in Threads :
          (loc[t].in_cs /\ loc[t].wrote) =>
              (loc[t].entry = "Unconfigured" /\ DomainState # "Unconfigured")
    /\ writes <= 1

\* One call has written the flags and still holds the lock, another waits
\* for it.
C5_Witness ==
    \E t, u \in Threads :
        /\ t # u
        /\ loc[t].in_cs /\ loc[t].wrote /\ loc[t].attempted
        /\ pc[u] = "cfg_lock"

\* The call of thread t is past the strcmp of line 691.
PastOverride(t) == pc[t] \in {"cfg_neg", "cfg_rec", "cfg_max", "cfg_unlock"}

\* The cached identity is p5.48xlarge, the protocol is RDMA and NCCL_PROTO
\* is not in the environment.
P5Rdma ==
    /\ pt_init
    /\ platform_type = Str(<<"p5.48xlarge">>)
    /\ selected_protocol = "RDMA"
    /\ env_NCCL_PROTO = "unset"

\* C18: on p5.48xlarge with RDMA and NCCL_PROTO unset, a call that took
\* the lock on an Unconfigured domain leaves lines 689-697 with the domain
\* ConfiguredUnordered and makes no attempt on its endpoint; once the
\* override has configured the domain it stays ConfiguredUnordered,
\* NCCL_PROTO stays unset and no later call makes an attempt; a call that
\* took the lock on a configured domain finds it unchanged after the
\* override.
C18_P5Override ==
    /\ \A t \in Threads :
          (P5Rdma /\ loc[t].entry = "Unconfigured" /\ PastOverride(t))
             => /\ DomainState = "ConfiguredUnordered"
                /\ configured_by = "p5"
                /\ ~loc[t].attempted
                /\ pc[t] # "cfg_rec"
    /\ configured_by = "p5"
          => /\ DomainState = "ConfiguredUnordered"
             /\ env_NCCL_PROTO = "unset"
             /\ \A t \in Threads : ~loc[t].attempted
    /\ \A t \in Threads :
          (loc[t].in_cs /\ loc[t].entry # "Unconfigured" /\ PastOverride(t))
             => DomainState = loc[t].entry

\* The override has configured the domain and a later call on it has
\* come to the unlock label with success.
C18_Witness ==
    /\ P5Rdma
    /\ configured_by = "p5"
    /\ \E t \in Threads :
          /\ pc[t] = "cfg_unlock"
          /\ loc[t].entry = "ConfiguredUnordered"
          /\ loc[t].ret = 0

\* C19: of the calls at the unlock label, those whose ordering negotiation
\* did not fail have tried the maximum message size exactly when the
\* protocol is RDMA; "unsupported" (and 0) from that attempt leave ret 0,
\* any other result is ret; those whose negotiation failed have not tried
\* it and return the negotiation's error.
C19_MaxMsgSize ==
    \A t \in Threads :
        pc[t] = "cfg_unlock" =>
            /\ loc[t].capped <=> (loc[t].negotiated /\ selected_protocol = "RDMA")
            /\ (loc[t].capped /\ Unsupported(loc[t].cap_res)) => loc[t].ret = 0
            /\ (loc[t].capped /\ ~Unsupported(loc[t].cap_res))
                  => loc[t].ret = loc[t].cap_res
            /\ (loc[t].negotiated /\ ~loc[t].capped) => loc[t].ret = 0
            /\ ~loc[t].negotiated => (~loc[t].capped /\ loc[t].ret < 0)

\* A call whose attempt on the maximum message size was answered
\* "unsupported" is at the unlock label with success, after its own
\* in-order attempt had succeeded.
C19_Witness ==
    \E t \in Threads :
        /\ pc[t] = "cfg_unlock"
        /\ loc[t].attempted /\ loc[t].have_ordering
        /\ loc[t].capped
        /\ loc[t].cap_res = 0 - FI_EOPNOTSUPP
        /\ loc[t].ret = 0

\* The call of thread t is at the unlock label (line 741) and returns what
\* ret holds there.
ReturnsSuccess(t) == pc[t] = "cfg_unlock" /\ loc[t].ret = 0

ReturnsError(t) == pc[t] = "cfg_unlock" /\ loc[t].ret # 0

\* C21: whenever the domain is ConfiguredUnordered because an attempt was
\* answered "unsupported" (not through the override of lines 689-697) and
\* a call is returning success at the unlock label, NCCL_PROTO is set in
\* the environment.
C21_UnorderedHasProto ==
    \A t \in Threads :
        (/\ ReturnsSuccess(t)
         /\ DomainState = "ConfiguredUnordered"
         /\ configured_by = "unsupported")
            => env_NCCL_PROTO # "unset"

\* C23: a call that returns an error from the unlock label has written
\* neither flag: the domain is in the state the call found when it took
\* the lock.
C23_ErrorLeavesState ==
    \A t \in Threads :
        ReturnsError(t) => (~loc[t].wrote /\ DomainState = loc[t].entry)

\* C15: no call comes to the strcmp of line 691 with the NULL that
\* get_platform_type returns when the identity could not be read, and the
\* process does not die.
C15_MissingIdentitySafe ==
    /\ ~crashed
    /\ \A t \in Threads : pc[t] = "cfg_p5cmp" => ~rv[t].str.null

(***************************************************************************)
(* Properties of the platform identity cache.                               *)
(***************************************************************************)
\* C6: the descriptor file is opened at most once, and every value
\* get_platform_type has returned is the file's first line, or NULL when the
\* open or the read failed.
C6_FirstLineOrNone ==
    /\ opens <= 1
    /\ \A v \in pt_returns :
          v = (IF pt_failed THEN NullStr ELSE Str(FirstLine(product_name)))

\* The record whose name is exactly the identity: the last such entry of
\* the catalog, NULL when there is none or the identity is NULL.
ExactMatch(ptype) ==
    LET hits == {i \in 1..platform_n : ptype = Str(<<platform_data_map[i].name>>)}
    IN IF ptype.null \/ hits = {} THEN NULL
       ELSE CHOOSE i \in hits : \A j \in hits : j <= i

\* Thread t is in get_platform_data past line 201: it is making, or has
\* made, the call to get_platform_type that precedes the scan.
Scanning(t) ==
    \/ pc[t] = "gpd_scan"
    \/ \E i \in 1..Len(stack[t]) : stack[t][i] = "gpd_scan"

\* C17: every value get_platform_data has returned is the record whose name
\* equals the cached identity, NULL when the identity is NULL or matches no
\* record; all calls have returned one value; at most one call ever comes
\* to the scan, and it does so before any call has returned.
C17_LookupOnce ==
    /\ \A v \in pd_returns : pt_init /\ v = ExactMatch(platform_type)
    /\ Cardinality(pd_returns) <= 1
    /\ Cardinality({t \in Threads : Scanning(t)}) <= 1
    /\ \A t \in Threads : Scanning(t) => (pd_returns = {} /\ pd_mutex = t)
    /\ pd_returns # {} => pd_init

\* On a platform the catalog does not know a call has returned NULL and
\* another call is at the test of line 197.
C17_Witness ==
    /\ product_name = <<"m5.large", "\n">>
    /\ pd_returns = {NULL}
    /\ ~pt_failed
    /\ \E t \in Threads : pc[t] = "gpd_check" /\ pd_init


(***************************************************************************)
(* Properties of platform_init.                                             *)
(***************************************************************************)
\* The last platform_init call has returned; it reached line 581.
InitReturned == init_outcome.status = "returned"
InitCompleted == InitReturned /\ ~tun.exited

\* C14: every tunable the user had set before platform_init (an environment
\* variable that was set, a parameter that was given, a duplicate-connection
\* count of 0 included) has after the call the value it had before.
C14_OverridesRespected ==
    InitReturned =>
        /\ \A n \in EnvNames :
              init_pre.env[n] # "unset" => tun.env[n] = init_pre.env[n]
        /\ params.nic_dup_conns # 0 - 1
              => tun.nic_dup_conns = init_pre.nic_dup_conns
        /\ params.net_latency >= 0 => tun.net_latency = init_pre.net_latency
        /\ params.protocol # "unset" => tun.protocol = init_pre.protocol
        /\ params.domain_per_thread # 0 - 1
              => tun.domain_per_thread = init_pre.domain_per_thread

\* The record of p4d.24xlarge is the one get_platform_data gave the last
\* platform_init call.
OnP4d ==
    /\ InitReturned
    /\ init_outcome.pd # NULL
    /\ platform_data_map[init_outcome.pd].name = "p4d.24xlarge"

\* The identity file's first line is p4d.24xlarge and was read.
P4dIdentity ==
    /\ InitReturned
    /\ ~pt_failed
    /\ FirstLine(product_name) = <<"p4d.24xlarge">>

RecordHasLatency(pd) ==
    /\ pd # NULL
    /\ platform_data_map[pd].name \in
          {"p4d.24xlarge", "p4de.24xlarge", "p3dn.24xlarge", "p5.48xlarge"}

\* C20: without a latency from the user, a platform_init that reaches
\* line 566 leaves the record's latency when the record gives one, and 150
\* when it gives none or the platform is unknown.
C20_LatencyFallback ==
    (InitCompleted /\ params.net_latency < 0) =>
        tun.net_latency =
            (IF RecordHasLatency(init_outcome.pd)
             THEN platform_data_map[init_outcome.pd].latency
             ELSE 150)

(***************************************************************************)
(* Properties of the rail ordering engine.                                  *)
(***************************************************************************)

\* The descriptors reached from head through the links, at most fuel of them.
RECURSIVE WalkList(_, _, _)
WalkList(head, nxt, fuel) ==
    IF head = NULL \/ fuel = 0 THEN << >>
    ELSE <<head>> \o WalkList(nxt[head], nxt, fuel - 1)

Range(seq) == {seq[i] : i \in 1..Len(seq)}

\* The list the last call was given and the list it left, in order.
ListBefore == WalkList(sort_pre.head, sort_pre.nxt, MaxRails + 1)
ListAfter == WalkList(info_list, next, MaxRails + 1)

\* The descriptors among those of seq whose get_rail_vf_idx is slot, in order.
OfSlot(seq, slot) ==
    SelectSeq(seq, LAMBDA d : get_rail_vf_idx(guid_file[d]) = slot)

\* C7: a successful call on a list of exactly num_rails descriptors leaves a
\* list of num_rails elements, each input descriptor exactly once, ending in
\* NULL: a permutation of the input.
C7_Permutation ==
    (sort_outcome.status = "ok" /\ Len(ListBefore) = sort_pre.n)
        => /\ Len(ListAfter) = sort_pre.n
           /\ Range(ListAfter) = Range(ListBefore)
           /\ Cardinality(Range(ListAfter)) = sort_pre.n

\* A successful call on three or more rails that changed their order.
C7_Witness ==
    /\ sort_outcome.status = "ok"
    /\ sort_pre.n >= 3
    /\ Len(ListBefore) = sort_pre.n
    /\ ListAfter # ListBefore

\* The case of C8: num_rails = 4 on a list of exactly four readable
\* descriptors, two of VF slot 0 and two of VF slot 1.
TwoAndTwo ==
    /\ sort_pre.n = 4
    /\ Len(ListBefore) = 4
    /\ Len(OfSlot(ListBefore, 0)) = 2
    /\ Len(OfSlot(ListBefore, 1)) = 2

\* C8 as claimed: the slot-0 rails at output positions 0 and 2 in discovery
\* order, the slot-1 rails at positions 1 and 3.
C8_Interleaved ==
    TwoAndTwo
        => /\ sort_outcome.status = "ok"
           /\ Len(ListAfter) = 4
           /\ <<ListAfter[1], ListAfter[3]>> = OfSlot(ListBefore, 0)
           /\ <<ListAfter[2], ListAfter[4]>> = OfSlot(ListBefore, 1)

\* C8 as amended: in that case the call succeeds, the slot-0 rails are at
\* output positions 0 and 1 in discovery order and the slot-1 rails at
\* positions 2 and 3 in discovery order.
C8_Blocked ==
    TwoAndTwo
        => /\ sort_outcome.status = "ok"
           /\ Len(ListAfter) = 4
           /\ <<ListAfter[1], ListAfter[2]>> = OfSlot(ListBefore, 0)
           /\ <<ListAfter[3], ListAfter[4]>> = OfSlot(ListBefore, 1)

\* Two and two, discovered in the order slot 1, slot 0, slot 1, slot 0.
C8_Witness ==
    /\ TwoAndTwo
    /\ sort_outcome.status = "ok"
    /\ OfSlot(ListBefore, 0) = <<ListBefore[2], ListBefore[4]>>

\* C9: when the call fails (unreadable file, malformed identifier, slot out
\* of range, occupied position, list shorter than num_rails) the list head
\* and every next link are what they were before the call.
C9_FailureLeavesList ==
    sort_outcome.status = "error"
        => /\ info_list = sort_pre.head
           /\ next = sort_pre.nxt

\* A call that failed on an occupied position after it had assigned two
\* descriptors.
C9_Witness ==
    /\ sort_outcome.status = "error"
    /\ sort_outcome.why = "duplicate"
    /\ ~sort_outcome.oob
    /\ Cardinality({k \in DOMAIN sort_array : sort_array[k] # NULL}) >= 2
    /\ sort_array[0] # NULL
    /\ sort_array[0] # sort_pre.head

\* The descriptors the last call read: the first num_rails of its list.
Visited == Range(SubSeq(ListBefore, 1, Min(sort_pre.n, Len(ListBefore))))

\* The first line of d's identifier file is there and is not
\* XXXX:XXXX:XXXX:XXXX.
Malformed(d) ==
    /\ guid_file[d].openable
    /\ guid_file[d].content # << >>
    /\ ~WellFormedGuid(FirstLine(guid_file[d].content))

\* C10: a descriptor whose identifier line is not exactly 19 characters of
\* the form XXXX:XXXX:XXXX:XXXX gets a format error from get_rail_vf_idx, and
\* a call that read such a descriptor fails and leaves the list as it was.
C10_MalformedRejected ==
    (sort_pre.n >= 1 /\ ~sort_outcome.oob /\ \E d \in Visited : Malformed(d))
        => /\ \A d \in Visited :
                 Malformed(d) => get_rail_vf_idx(guid_file[d]) = 0 - EINVAL
           /\ sort_outcome.status = "error"
           /\ info_list = sort_pre.head
           /\ next = sort_pre.nxt


\* The VF slot get_rail_vf_idx gives descriptor d.
SlotOf(d) == get_rail_vf_idx(guid_file[d])

\* The first k descriptors of seq all have a slot the counters know.
ValidUpTo(seq, k) == \A j \in 1..k : SlotOf(seq[j]) \in 0..(NUM_VF - 1)

\* The target position of the k-th descriptor of seq (lines 825-826): its
\* slot's starting position plus the number of earlier rails of that slot.
TargetOf(seq, k) ==
    RailMapInit[SlotOf(seq[k])]
        + Cardinality({j \in 1..(k - 1) : SlotOf(seq[j]) = SlotOf(seq[k])})

\* The k-th descriptor of seq is given a position an earlier one was given.
Clash(seq, k) ==
    /\ ValidUpTo(seq, k)
    /\ \E j \in 1..(k - 1) : TargetOf(seq, j) = TargetOf(seq, k)

\* The number of descriptors the last call could reach.
Reach == Min(sort_pre.n, Len(ListBefore))

\* C11: when the position computed for a descriptor was already given to an
\* earlier descriptor of the call, the call fails as a duplicate and the
\* list is as it was; in a successful call the positions of the descriptors
\* are pairwise different and each descriptor sits at its position.
C11_DuplicateRejected ==
    /\ (\E k \in 1..Reach : Clash(ListBefore, k))
          => /\ sort_outcome.status = "error"
             /\ sort_outcome.why = "duplicate"
             /\ info_list = sort_pre.head
             /\ next = sort_pre.nxt
    /\ sort_outcome.status = "ok"
          => \A k \in 1..sort_pre.n :
                /\ sort_array[TargetOf(ListBefore, k)] = ListBefore[k]
                /\ \A j \in 1..(k - 1) :
                      TargetOf(ListBefore, j) # TargetOf(ListBefore, k)

\* Three rails of slot 0 and then one of slot 1, which is given position 2
\* again.
C11_Witness ==
    /\ sort_outcome.status = "error"
    /\ sort_outcome.why = "duplicate"
    /\ Reach = 4
    /\ Clash(ListBefore, 4)
    /\ SlotOf(ListBefore[4]) = 1
    /\ sort_array[2] = ListBefore[3]

\* C12: a call that comes to a descriptor whose identifier is
\* 0000:0000:0000:0203 (get_rail_vf_idx gives 3) fails there as out of
\* range and leaves the list as it was; a call whose assignment loop ran to
\* its end has indexed rail_map with slots 0 and 1 only.
C12_OutOfRangeRejected ==
    /\ \A k \in 1..Reach :
          (/\ guid_file[ListBefore[k]] = GuidSlot3
           /\ ValidUpTo(ListBefore, k - 1)
           /\ ~sort_outcome.oob
           /\ \A j \in 1..(k - 1) : ~Clash(ListBefore, j))
             => /\ SlotOf(ListBefore[k]) = 3
                /\ sort_outcome.status = "error"
                /\ sort_outcome.why = "range"
    /\ (\E k \in 1..Reach : guid_file[ListBefore[k]] = GuidSlot3)
          => /\ sort_outcome.status = "error"
             /\ info_list = sort_pre.head
             /\ next = sort_pre.nxt
    /\ sort_outcome.status \in {"ok", "crash"}
          => \A d \in Visited : SlotOf(d) \in 0..(NUM_VF - 1)

\* A call that had placed two descriptors when it came to the identifier
\* 0000:0000:0000:0203.
C12_Witness ==
    /\ sort_outcome.status = "error"
    /\ sort_outcome.why = "range"
    /\ Reach >= 3
    /\ guid_file[ListBefore[3]] = GuidSlot3
    /\ sort_array[0] = ListBefore[2]
    /\ sort_array[2] = ListBefore[1]

\* What the caller has after a call: platform_sort_rails returns void
\* (line 799), so it is the list head and the links.
CallerView(head, nxt) == [head |-> head, nxt |-> nxt]

\* The identifier files under which every rail is of slot 0 or 1.
GoodFiles == [Descs -> {GuidSlot0, GuidSlot1}]

\* C13: after a failed call the caller has something that no successful
\* call on that list with that num_rails, whatever the identifiers had
\* been, would have left it with.
C13_FailureObservable ==
    sort_outcome.status = "error"
        => ~\E f \in GoodFiles :
               \E r \in {platform_sort_rails(sort_pre.head, sort_pre.nxt, f,
                                              sort_pre.n, FALSE)} :
                  /\ r.status = "ok"
                  /\ CallerView(r.head, r.nxt) = CallerView(info_list, next)

\* C22: in a call with num_rails >= 1 on a list of exactly num_rails
\* descriptors, all of slot 0 or 1, every position used to read or write
\* sorted_info_array lies in 0..num_rails-1, and when the assignment loop
\* finishes without error every entry is filled, so that the assertions of
\* lines 844-845 hold.
C22_TargetsInBounds ==
    (/\ sort_outcome.status # "none"
     /\ sort_pre.n >= 1
     /\ Len(ListBefore) = sort_pre.n
     /\ ValidUpTo(ListBefore, sort_pre.n))
        => /\ ~sort_outcome.oob
           /\ sort_outcome.status # "crash"
           /\ sort_outcome.status = "ok"
                 => \A k \in 0..(sort_pre.n - 1) : sort_array[k] # NULL

(***************************************************************************)
(* Properties of the three mutexes.                                         *)
(***************************************************************************)
\* Thread t is inside a call.
InCall(t) == pc[t] # "idle"

\* The mutexes thread t holds.
HeldBy(t) ==
    {m \in {"platform_mutex", "pd_mutex", "cfg_mutex"} :
        \/ m = "platform_mutex" /\ platform_mutex = t
        \/ m = "pd_mutex" /\ pd_mutex = t
        \/ m = "cfg_mutex" /\ cfg_mutex = t}

\* A thread that is in no call holds no mutex.
LocksReleased == \A t \in Threads : ~InCall(t) => HeldBy(t) = {}

\* The order of nested acquisitions: the identity lock is the innermost,
\* and the other two are taken by a thread that holds nothing.
LockOrder ==
    \A t \in Threads :
        /\ pc[t] \in {"gpd_lock", "cfg_lock"} => HeldBy(t) = {}
        /\ pc[t] = "gpt_lock" => "platform_mutex" \notin HeldBy(t)
        /\ "platform_mutex" \in HeldBy(t)
              => pc[t] \in {"gpt_check", "gpt_set", "gpt_read"}

\* While some call is in progress some thread can take a step of its call.
NoCallStuck ==
    (\E t \in Threads : InCall(t))
        => ENABLED (\E t \in Threads : LockStep(t) \/ RunStep(t))

\* C24: every mutex is released on every return path, the nested
\* acquisitions are never taken in the opposite order, and no state is
\* reachable in which a call is in progress and can never return because
\* no thread can take a step.
C24_EveryCallReturns == LocksReleased /\ LockOrder /\ NoCallStuck

=============================================================================
